---- MODULE Spec2Model ----
(***************************************************************************)
(* arxiv-zotero-connector: the metadata mapping engine                     *)
(* (metadata_config.py, arxiv_config.py) and the concurrent ingestion run  *)
(* (connector.py, run_collection_async and _process_paper_async), and the  *)
(* command-line entry point that calls it (main.py, main).                 *)
(*                                                                         *)
(* Text values are sequences of one-character strings, so that splitting,  *)
(* iteration over a string and date formatting are computed, not assumed.  *)
(* Dictionary keys, transformer names and exception class names are plain  *)
(* strings.                                                                *)
(***************************************************************************)
EXTENDS Integers, Sequences, FiniteSets, TLC

(* ------------------------------ bounds --------------------------------- *)

\* largest number of rules of a sub-table of ARXIV_TO_ZOTERO_MAPPING given to the mapper
MaxRules == 2
\* largest number of keys removed from a source record
MaxMissing == 1
\* largest number of papers search_arxiv returns
MaxPapers == 2
\* largest attempt limit of a retry policy the claims are read against
MaxAttemptsBound == 2

(* ------------------------------ values --------------------------------- *)

NoDate == <<0, 0, 0>>

StrV(s) == [t |-> "str", s |-> s, l |-> <<>>, d |-> NoDate, c |-> <<>>, g |-> <<>>]
ListV(l) == [t |-> "list", s |-> <<>>, l |-> l, d |-> NoDate, c |-> <<>>, g |-> <<>>]
DateTimeV(y, m, d) ==
    [t |-> "datetime", s |-> <<>>, l |-> <<>>, d |-> <<y, m, d>>, c |-> <<>>, g |-> <<>>]
NoneV == [t |-> "none", s |-> <<>>, l |-> <<>>, d |-> NoDate, c |-> <<>>, g |-> <<>>]
CreatorsV(c) == [t |-> "creators", s |-> <<>>, l |-> <<>>, d |-> NoDate, c |-> c, g |-> <<>>]
TagsV(g) == [t |-> "tags", s |-> <<>>, l |-> <<>>, d |-> NoDate, c |-> <<>>, g |-> g]

\* the outcome of a call: a returned value, or a raised exception of class exc
Returned(v) == [raised |-> FALSE, exc |-> "", value |-> v]
Raised(e) == [raised |-> TRUE, exc |-> e, value |-> NoneV]

(* --------------------------- str operations ---------------------------- *)

IsSpace(ch) == ch = " "

\* str.split(): the maximal runs of non-whitespace characters, in order
RECURSIVE SplitFrom(_, _, _, _)
SplitFrom(text, k, cur, acc) ==
    IF k > Len(text)
    THEN IF cur = <<>> THEN acc ELSE Append(acc, cur)
    ELSE IF IsSpace(text[k])
         THEN SplitFrom(text, k + 1, <<>>, IF cur = <<>> THEN acc ELSE Append(acc, cur))
         ELSE SplitFrom(text, k + 1, Append(cur, text[k]), acc)

Split(text) == SplitFrom(text, 1, <<>>, <<>>)

\* ' '.join(tokens)
RECURSIVE JoinSpace(_)
JoinSpace(tokens) ==
    IF tokens = <<>> THEN <<>>
    ELSE IF Len(tokens) = 1 THEN tokens[1]
    ELSE tokens[1] \o <<" ">> \o JoinSpace(Tail(tokens))

DigitChar(n) == <<"0", "1", "2", "3", "4", "5", "6", "7", "8", "9">>[n + 1]

\* the decimal digits of n >= 0
RECURSIVE Decimal(_)
Decimal(n) == IF n < 10 THEN <<DigitChar(n)>> ELSE Decimal(n \div 10) \o <<DigitChar(n % 10)>>

\* %m and %d: two digits, zero padded
TwoDigits(n) == <<DigitChar((n \div 10) % 10), DigitChar(n % 10)>>

\* datetime.strftime('%Y-%m-%d')
Strftime(d) == Decimal(d[1]) \o <<"-">> \o TwoDigits(d[2]) \o <<"-">> \o TwoDigits(d[3])

\* the elements a for-loop over the value visits: a list's items, a str's characters
IsIterable(v) == v.t \in {"list", "str"}
Items(v) == IF v.t = "list" THEN v.l ELSE [k \in 1..Len(v.s) |-> <<v.s[k]>>]

(* ---------------------------- transformers ----------------------------- *)

\* one element of transform_creators' comprehension
Creator(name) ==
    [creatorType |-> "author",
     firstName |-> Split(name)[1],
     lastName |-> JoinSpace(Tail(Split(name)))]

transform_creators(authors) ==
    IF ~IsIterable(authors) THEN Raised("TypeError")
    ELSE IF \E k \in 1..Len(Items(authors)) : Split(Items(authors)[k]) = <<>>
         THEN Raised("IndexError")
         ELSE Returned(CreatorsV([k \in 1..Len(Items(authors)) |-> Creator(Items(authors)[k])]))

transform_date(date) ==
    IF date.t = "datetime" THEN Returned(StrV(Strftime(date.d)))
    ELSE Raised("AttributeError")

transform_tags(categories) ==
    IF ~IsIterable(categories) THEN Raised("TypeError")
    ELSE Returned(TagsV([k \in 1..Len(Items(categories)) |-> [tag |-> Items(categories)[k]]]))

\* the methods getattr(self, name) finds on MetadataMapper
MapperMethods == {"transform_creators", "transform_date", "transform_tags"}

\* transformer = getattr(self, mapping['transformer']); value = transformer(value)
ApplyTransformer(name, value) ==
    IF name \notin MapperMethods THEN Raised("AttributeError")
    ELSE CASE name = "transform_creators" -> transform_creators(value)
           [] name = "transform_date" -> transform_date(value)
           [] OTHER -> transform_tags(value)

(* --------------------------- mapping tables ---------------------------- *)

NoTransformer == ""

\* a rule whose 'source_field' is one key
KeyRule(target, key, required, transformer) ==
    [target |-> target, kind |-> "key", key |-> key, keys |-> <<>>, required |-> required,
     transformer |-> transformer, has_default |-> FALSE, default_value |-> NoneV]

\* a rule whose 'source_field' is None, with a 'default_value'
DefaultRule(target, required, default) ==
    [target |-> target, kind |-> "none", key |-> "", keys |-> <<>>, required |-> required,
     transformer |-> NoTransformer, has_default |-> TRUE, default_value |-> default]

\* a rule whose 'source_field' is None, with a 'transformer' that generates the value
GeneratorRule(target, required, transformer) ==
    [target |-> target, kind |-> "none", key |-> "", keys |-> <<>>, required |-> required,
     transformer |-> transformer, has_default |-> FALSE, default_value |-> NoneV]

\* a rule whose 'source_field' is a list of keys
ListRule(target, keys, required, transformer) ==
    [target |-> target, kind |-> "list", key |-> "", keys |-> keys, required |-> required,
     transformer |-> transformer, has_default |-> FALSE, default_value |-> NoneV]

ARXIV_TO_ZOTERO_MAPPING ==
    << KeyRule("title", "title", TRUE, "clean_latex_markup"),
       KeyRule("creators", "authors", TRUE, "transform_creators"),
       KeyRule("url", "arxiv_url", TRUE, NoTransformer),
       KeyRule("abstractNote", "abstract", FALSE, "clean_latex_markup"),
       KeyRule("date", "published", TRUE, "transform_date"),
       KeyRule("DOI", "doi", FALSE, NoTransformer),
       KeyRule("journalAbbreviation", "journal_ref", FALSE, "extract_journal_abbrev"),
       KeyRule("publicationTitle", "journal_ref", FALSE, "extract_journal_name"),
       KeyRule("volume", "journal_ref", FALSE, "extract_volume"),
       KeyRule("issue", "journal_ref", FALSE, "extract_issue"),
       KeyRule("pages", "journal_ref", FALSE, "extract_pages"),
       KeyRule("archiveID", "arxiv_id", TRUE, NoTransformer),
       DefaultRule("archive", TRUE, StrV(<<"a", "r", "X", "i", "v">>)),
       KeyRule("archiveLocation", "primary_category", FALSE, NoTransformer),
       DefaultRule("libraryCatalog", TRUE,
                   StrV(<<"a", "r", "X", "i", "v", ".", "o", "r", "g">>)),
       KeyRule("tags", "categories", FALSE, "transform_tags"),
       ListRule("extra", <<"comment", "version">>, FALSE, "transform_extra"),
       GeneratorRule("accessDate", TRUE, "get_current_date"),
       KeyRule("rights", "license", FALSE, NoTransformer) >>

(* ---------------------------- map_metadata ----------------------------- *)

EmptyMap == [x \in {} |-> NoneV]

Put(mapped_data, field, value) ==
    [x \in (DOMAIN mapped_data) \cup {field} |-> IF x = field THEN value ELSE mapped_data[x]]

\* what leaves map_metadata: the mapping, or an exception and no mapping
MapReturned(mapped_data) == [raised |-> FALSE, exc |-> "", mapped |-> mapped_data]
MapRaised(e) == [raised |-> TRUE, exc |-> e, mapped |-> EmptyMap]

\* 'source_field in source_data' for a hashable source_field; the records are keyed by
\* strings, so None is never a key of one
HasSourceField(rule, source_data) == rule.kind = "key" /\ rule.key \in DOMAIN source_data

\* mapping.get('required', False)
MissingIsFatal(rule) == rule.required

ReturnPartial(e, mapped_data) == MapReturned(mapped_data)

\* except Exception as e: logger.error(...); raise
OnMappingError(e, mapped_data) == MapRaised(e)

\* the for-loop of map_metadata from rule k on, with mapped_data as built so far
RECURSIVE MapRules(_, _, _, _)
MapRules(mapping_config, source_data, k, mapped_data) ==
    IF k > Len(mapping_config) THEN MapReturned(mapped_data)
    ELSE LET mapping == mapping_config[k] IN
         IF mapping.kind = "list"
         THEN OnMappingError("TypeError", mapped_data)
         ELSE IF ~HasSourceField(mapping, source_data)
         THEN IF MissingIsFatal(mapping)
              THEN OnMappingError("ValueError", mapped_data)
              ELSE MapRules(mapping_config, source_data, k + 1, mapped_data)
         ELSE LET value == source_data[mapping.key]
                  out == IF mapping.transformer = NoTransformer
                         THEN Returned(value)
                         ELSE ApplyTransformer(mapping.transformer, value)
              IN IF out.raised
                 THEN OnMappingError(out.exc, mapped_data)
                 ELSE MapRules(mapping_config, source_data, k + 1,
                               Put(mapped_data, mapping.target, out.value))

map_metadata(mapping_config, source_data) == MapRules(mapping_config, source_data, 1, EmptyMap)

(* ------------------------- arXiv search results ------------------------ *)

\* entry_id.split('/')[-1]: the text after the last '/'
RECURSIVE LastSegment(_)
LastSegment(text) ==
    IF \A k \in 1..Len(text) : text[k] # "/" THEN text
    ELSE LastSegment(Tail(text))

\* arxiv.Result objects the client yields (the fields _prepare_arxiv_metadata reads)
ArxivResults ==
    { [title |-> <<"T">>, summary |-> <<"s">>,
       authors |-> << <<"A", "d", "a", " ", "L">>, <<"M">> >>,
       published |-> DateTimeV(2023, 4, 1),
       entry_id |-> <<"h", "/", "1">>, pdf_url |-> StrV(<<"h", "/", "p">>),
       primary_category |-> <<"c">>, categories |-> << <<"c">>, <<"c">>, <<"m">> >>,
       journal_ref |-> NoneV, doi |-> NoneV, comment |-> NoneV],
      [title |-> <<"U", " ", "V">>, summary |-> <<"s">>,
       authors |-> << <<"M">> >>,
       published |-> DateTimeV(2024, 12, 25),
       entry_id |-> <<"h", "/", "2">>, pdf_url |-> NoneV,
       primary_category |-> <<"m">>, categories |-> << <<"m">> >>,
       journal_ref |-> StrV(<<"J", " ", "1">>), doi |-> StrV(<<"d">>),
       comment |-> StrV(<<"k">>)] }

\* the dictionary _prepare_arxiv_metadata builds from one result
prepare_arxiv_metadata(result) ==
    [title |-> StrV(result.title),
     abstract |-> StrV(result.summary),
     authors |-> ListV(result.authors),
     published |-> IF result.published.t = "datetime"
                   THEN StrV(Strftime(result.published.d))
                   ELSE result.published,
     arxiv_id |-> StrV(LastSegment(result.entry_id)),
     arxiv_url |-> StrV(result.entry_id),
     pdf_url |-> result.pdf_url,
     primary_category |-> StrV(result.primary_category),
     categories |-> ListV(result.categories),
     journal_ref |-> result.journal_ref,
     doi |-> result.doi,
     comment |-> result.comment]

\* the papers search_arxiv can return
PreparedPapers == {prepare_arxiv_metadata(r) : r \in ArxivResults}

(* ----------------------- inputs of the mapping engine ------------------ *)

Restrict(f, S) == [x \in S |-> f[x]]

\* the subsets of S with at most n elements
RECURSIVE SmallSubsets(_, _)
SmallSubsets(S, n) ==
    IF n = 0 THEN {{}}
    ELSE LET prev == SmallSubsets(S, n - 1)
         IN prev \cup {T \cup {x} : T \in prev, x \in S}

\* the rules of table at the positions in S, in table order
SubTable(table, S) ==
    LET idx == SelectSeq([k \in 1..Len(table) |-> k], LAMBDA k : k \in S)
    IN [k \in 1..Len(idx) |-> table[idx[k]]]

\* the mapping tables given to MetadataMapper: the active table and its small sub-tables
MappingConfigs ==
    {ARXIV_TO_ZOTERO_MAPPING}
        \cup {SubTable(ARXIV_TO_ZOTERO_MAPPING, S) :
                 S \in SmallSubsets(1..Len(ARXIV_TO_ZOTERO_MAPPING), MaxRules)}

\* source records before the search step formats them: 'published' still a timestamp,
\* a 'license' key present
RawRecords ==
    {[x \in (DOMAIN prepare_arxiv_metadata(r)) \cup {"license"} |->
         IF x = "license" THEN StrV(<<"c", "c">>)
         ELSE IF x = "published" THEN r.published
         ELSE prepare_arxiv_metadata(r)[x]] : r \in ArxivResults}

\* the source records given to map_metadata: any of the above with a few keys missing
SourceRecords ==
    {Restrict(p, (DOMAIN p) \ M) :
        p \in PreparedPapers \cup RawRecords,
        M \in SmallSubsets(DOMAIN prepare_arxiv_metadata(CHOOSE r \in ArxivResults : TRUE)
                               \cup {"license"}, MaxMissing)}

(* ------------------------------- state --------------------------------- *)

VARIABLES
    \* one call of MetadataMapper.map_metadata
    map_pc,          \* "ready" before the call, "done" after it
    map_config,      \* self.mapping_config
    source_data,     \* the argument
    map_result,      \* what the call returned or raised
    \* one run of ArxivZoteroCollector.run_collection_async
    collection_key,  \* TRUE when self.collection_key is set
    download_pdfs,   \* the argument download_pdfs
    mapping_config,  \* the table self.metadata_mapper was built with
    run_pc,          \* "search", "gather", "returned", or "raised" / "cancelled" (an
                     \* exception, a cancellation left the run)
    papers,          \* what search_arxiv returned
    task_pc,         \* per paper: "pending", "downloading" (at await download_pdf), "done",
                     \* "cancelled"
    item_key,        \* per paper: the key create_zotero_item returned, NoKey for None
    log,             \* per paper: what each collaborator was asked and what it answered
    outcome,         \* per paper: "none", or how process_paper counted it
    successful,      \* the counter successful
    failed,          \* the counter failed
    result,          \* the pair run_collection_async returned
    \* one call of main (main.py)
    main_pc,         \* "credentials", "construct", "params", "run", "finally", then
                     \* "returned" or "raised" (an exception left main)
    collector,       \* TRUE once the local 'collector' holds an ArxivZoteroCollector
    closed,          \* the number of calls of collector.close()
    main_err,        \* the step of main whose call raised, and the exception's class
    exit_code        \* what main returned, NoExit before that

map_vars == <<map_pc, map_config, source_data, map_result>>
run_vars == <<collection_key, download_pdfs, mapping_config, run_pc, papers, task_pc,
              item_key, log, outcome, successful, failed, result>>
main_vars == <<main_pc, collector, closed, main_err, exit_code>>
vars == <<map_vars, run_vars, main_vars>>

NoKey == 0
NoResult == <<-1, -1>>
NoExit == -1
NoError == [step |-> "none", exc |-> ""]

(* --------------------------- exception handling ------------------------ *)

\* the exception classes raised in the run and in main that derive from Exception
ExceptionClasses ==
    {"ValueError", "AttributeError", "TypeError", "IndexError", "KeyError",
     "UnboundLocalError", "HTTPError", "CredentialsError", "ArgumentTypeError"}

CaughtOnlyZoteroAPIError(e) == e = "ZoteroAPIError"

\* 'except Exception' (connector.py lines 90, 110, 223, 273, 343, 353)
CaughtByExcept(e) == e \in ExceptionClasses

\* the ways a piece of _process_paper_async ends
Ret(ok) == [k |-> "ret", ok |-> ok, exc |-> ""]
Exc(e) == [k |-> "exc", ok |-> FALSE, exc |-> e]
Await == [k |-> "await", ok |-> FALSE, exc |-> ""]

(* ---------------------------- collaborators ---------------------------- *)

\* zot.create_items([template]): raises; answers without a 'successful' entry; answers
\* with a 'successful' entry that has no 'key'; answers with the new item's key
CreateResponses == {"raise", "unsuccessful", "no_key", "ok"}

\* zot.item / zot.addto_collection: raises; returns a false value; returns a true value
AddResponses == {"raise", "false", "true"}

Buckets == {"success", "unchanged", "failure"}

\* zot.upload_attachments([attachment]): raises; returns None; returns a dict holding the
\* keys in keys, with that many entries under each
UploadResponses ==
    {[kind |-> "raise", keys |-> {}, success |-> 0, unchanged |-> 0, failure |-> 0],
     [kind |-> "none", keys |-> {}, success |-> 0, unchanged |-> 0, failure |-> 0]}
    \cup {r \in [kind : {"dict"}, keys : SUBSET Buckets,
                 success : 0..1, unchanged : 0..1, failure : 0..1] :
             /\ r.success = 0 \/ "success" \in r.keys
             /\ r.unchanged = 0 \/ "unchanged" \in r.keys
             /\ r.failure = 0 \/ "failure" \in r.keys}

\* pdf_manager.download_pdf(url, title): returns (path, filename); returns a pair of
\* None; raises.  Without a url there is nothing to fetch.
DownloadResponses(url) == IF url.t = "none" THEN {"none", "raise"} ELSE {"ok", "none", "raise"}

(* -------------------------- create_zotero_item ------------------------- *)

ItemKeyOfUnchecked(response, key) ==
    CASE response = "raise" -> Raised("HTTPError")
      [] OTHER -> Returned(key)

\* lines 80-88: the key of the created item, None, or a KeyError
ItemKeyOf(response, key) ==
    CASE response = "raise" -> Raised("HTTPError")
      [] response = "unsuccessful" -> Returned(NoKey)
      [] response = "no_key" -> Raised("KeyError")
      [] OTHER -> Returned(key)

create_zotero_item_unmapped(config, paper, response, key) ==
    LET r == ItemKeyOf(response, key)
    IN IF r.raised
       THEN IF CaughtByExcept(r.exc)
            THEN [raised |-> FALSE, exc |-> "", value |-> NoKey]
            ELSE [raised |-> TRUE, exc |-> r.exc, value |-> NoKey]
       ELSE [raised |-> FALSE, exc |-> "", value |-> r.value]

\* [raised, exc, value]: value is the item key or NoKey; key is the key the library
\* would give the new item
create_zotero_item(config, paper, response, key) ==
    LET mapped == map_metadata(config, paper)
        body == IF mapped.raised THEN Raised(mapped.exc)
                ELSE LET r == ItemKeyOf(response, key)
                     IN IF r.raised THEN Raised(r.exc) ELSE r
    IN IF body.raised
       THEN IF CaughtByExcept(body.exc)
            THEN [raised |-> FALSE, exc |-> "", value |-> NoKey]
            ELSE [raised |-> TRUE, exc |-> body.exc, value |-> NoKey]
       ELSE [raised |-> FALSE, exc |-> "", value |-> body.value]

(* --------------------------- add_to_collection ------------------------- *)

\* [raised, exc, value]: value is the boolean returned
add_to_collection(has_collection, response) ==
    IF ~has_collection THEN [raised |-> FALSE, exc |-> "", value |-> TRUE]
    ELSE IF response = "raise"
         THEN IF CaughtByExcept("HTTPError")
              THEN [raised |-> FALSE, exc |-> "", value |-> FALSE]
              ELSE [raised |-> TRUE, exc |-> "HTTPError", value |-> FALSE]
         ELSE [raised |-> FALSE, exc |-> "", value |-> response = "true"]

(* ------------------------- _process_paper_async ------------------------ *)

UploadSucceededUnknownOk(uploaded) ==
    IF uploaded.kind = "dict" /\ uploaded.keys # {}
    THEN IF uploaded.success > 0 \/ uploaded.unchanged > 0 THEN TRUE
         ELSE IF uploaded.failure > 0 THEN FALSE
         ELSE TRUE
    ELSE FALSE

\* lines 205-221: the value returned for the upload's result
UploadSucceeded(uploaded) ==
    IF uploaded.kind = "dict" /\ uploaded.keys # {}
    THEN IF uploaded.success > 0 \/ uploaded.unchanged > 0 THEN TRUE
         ELSE IF uploaded.failure > 0 THEN FALSE
         ELSE FALSE
    ELSE FALSE

\* 'except Exception ... return False' around a piece r of the body (lines 223, 273)
ExceptReturnsFalse(r) == IF r.k = "exc" /\ CaughtByExcept(r.exc) THEN Ret(FALSE) ELSE r

ProcessPaperStartAddNotFatal(config, has_collection, dl, paper, cresp, aresp, key) ==
    LET created == create_zotero_item(config, paper, cresp, key)
        added == add_to_collection(has_collection, aresp)
    IN ExceptReturnsFalse(
         IF created.raised THEN Exc(created.exc)
         ELSE IF created.value = NoKey THEN Ret(FALSE)
         ELSE IF has_collection /\ added.raised THEN Exc(added.exc)
         ELSE IF dl THEN Await
         ELSE Exc("UnboundLocalError"))

ProcessPaperStartNoKeyCheck(config, has_collection, dl, paper, cresp, aresp, key) ==
    LET created == create_zotero_item(config, paper, cresp, key)
        added == add_to_collection(has_collection, aresp)
    IN ExceptReturnsFalse(
         IF created.raised THEN Exc(created.exc)
         ELSE IF has_collection /\ added.raised THEN Exc(added.exc)
         ELSE IF has_collection /\ ~added.value THEN Ret(FALSE)
         ELSE IF dl THEN Await
         ELSE Exc("UnboundLocalError"))

\* lines 173-189, up to the await of download_pdf; without a download request line 189
\* reads pdf_path before any assignment
ProcessPaperStart(config, has_collection, dl, paper, cresp, aresp, key) ==
    LET created == create_zotero_item(config, paper, cresp, key)
        added == add_to_collection(has_collection, aresp)
    IN ExceptReturnsFalse(
         IF created.raised THEN Exc(created.exc)
         ELSE IF created.value = NoKey THEN Ret(FALSE)
         ELSE IF has_collection /\ added.raised THEN Exc(added.exc)
         ELSE IF has_collection /\ ~added.value THEN Ret(FALSE)
         ELSE IF dl THEN Await
         ELSE Exc("UnboundLocalError"))

ProcessPaperResumeFetchOptional(dresp, uresp) ==
    ExceptReturnsFalse(
      IF dresp = "raise" THEN Exc("HTTPError")
      ELSE IF dresp = "ok"
           THEN ExceptReturnsFalse(IF uresp.kind = "raise" THEN Exc("HTTPError")
                                   ELSE Ret(UploadSucceeded(uresp)))
           ELSE Ret(TRUE))

\* lines 184-228, from the completion of download_pdf on
ProcessPaperResume(dresp, uresp) ==
    ExceptReturnsFalse(
      IF dresp = "raise" THEN Exc("HTTPError")
      ELSE IF dresp = "ok"
           THEN ExceptReturnsFalse(IF uresp.kind = "raise" THEN Exc("HTTPError")
                                   ELSE Ret(UploadSucceeded(uresp)))
           ELSE Ret(FALSE))

(* --------------------------- run_collection_async ---------------------- *)

TallyDropsFailure(ok, s, f) == IF ok THEN <<s + 1, f>> ELSE <<s, f>>

\* lines 339-342: the counters after one paper; no await stands between the return of
\* _process_paper_async and the increment, so the event loop runs no other task there
Tally(ok, s, f) == IF ok THEN <<s + 1, f>> ELSE <<s, f + 1>>

Tasks == 1..Len(papers)

NoUpload == [kind |-> "-", success |-> 0, unchanged |-> 0, failure |-> 0]
LogUpload(uresp) ==
    [kind |-> uresp.kind, success |-> uresp.success, unchanged |-> uresp.unchanged,
     failure |-> uresp.failure]
NoLog == [map |-> "-", create |-> "-", add |-> "-", fetch |-> "-", uploads |-> 0,
          upload |-> NoUpload]

\* process_paper (lines 336-345) receives r from _process_paper_async; an exception it
\* does not catch leaves gather and reaches the except of line 353
EndTask(i, r) ==
    IF r.k = "ret" \/ CaughtByExcept(r.exc)
    THEN LET counts == IF r.k = "ret" THEN Tally(r.ok, successful, failed)
                       ELSE <<successful, failed + 1>>
         IN /\ successful' = counts[1]
            /\ failed' = counts[2]
            /\ outcome' = [outcome EXCEPT ![i] = IF r.k = "ret" /\ r.ok THEN "Success"
                                                 ELSE "Failed"]
            /\ UNCHANGED <<run_pc, result>>
    ELSE /\ run_pc' = IF CaughtByExcept(r.exc) THEN "returned" ELSE "raised"
         /\ result' = IF CaughtByExcept(r.exc) THEN <<0, 0>> ELSE result
         /\ UNCHANGED <<successful, failed, outcome>>

\* lines 327-334 and 347: the search, the early return, the creation of the tasks
Search ==
    /\ run_pc = "search"
    /\ \E n \in 0..MaxPapers : \E found \in [1..n -> PreparedPapers] :
        /\ papers' = found
        /\ task_pc' = [i \in 1..n |-> "pending"]
        /\ item_key' = [i \in 1..n |-> NoKey]
        /\ log' = [i \in 1..n |-> NoLog]
        /\ outcome' = [i \in 1..n |-> "none"]
        /\ successful' = 0
        /\ failed' = 0
        /\ run_pc' = IF n = 0 THEN "returned" ELSE "gather"
        /\ result' = IF n = 0 THEN <<0, 0>> ELSE result
    /\ UNCHANGED <<collection_key, download_pdfs, mapping_config, map_vars, main_vars>>

\* task i runs from its start to its first suspension or to its end
StartTask(i) ==
    /\ run_pc = "gather"
    /\ task_pc[i] = "pending"
    /\ \A j \in Tasks : j < i => task_pc[j] # "pending"
    /\ \E cresp \in CreateResponses, aresp \in AddResponses :
        LET mapped == map_metadata(mapping_config, papers[i])
            created == create_zotero_item(mapping_config, papers[i], cresp, i)
            r == ProcessPaperStart(mapping_config, collection_key, download_pdfs,
                                   papers[i], cresp, aresp, i)
            got_key == ~created.raised /\ created.value # NoKey
        IN /\ item_key' = [item_key EXCEPT ![i] = IF got_key THEN created.value ELSE NoKey]
           /\ log' = [log EXCEPT ![i] =
                        [@ EXCEPT !.map = IF mapped.raised THEN "raise" ELSE "ok",
                                  !.create = IF mapped.raised THEN "-" ELSE cresp,
                                  !.add = IF got_key /\ collection_key THEN aresp ELSE "-",
                                  !.fetch = IF r.k = "await" THEN "pending" ELSE "-"]]
           /\ IF r.k = "await"
              THEN /\ task_pc' = [task_pc EXCEPT ![i] = "downloading"]
                   /\ UNCHANGED <<successful, failed, outcome, run_pc, result>>
              ELSE /\ task_pc' = [task_pc EXCEPT ![i] = "done"]
                   /\ EndTask(i, r)
    /\ UNCHANGED <<collection_key, download_pdfs, mapping_config, papers, map_vars,
                   main_vars>>

UploadCallsWithSecondBlock(dresp) == IF dresp = "ok" THEN 2 ELSE 0

\* line 202, the one call of upload_attachments: the calls made once download_pdf has
\* ended with dresp (the block after line 228 that would upload again is never reached)
UploadCalls(dresp) == IF dresp = "ok" THEN 1 ELSE 0

\* download_pdf completes for task i, which then runs to its end
FinishDownload(i) ==
    /\ run_pc = "gather"
    /\ task_pc[i] = "downloading"
    /\ \E dresp \in DownloadResponses(papers[i].pdf_url), uresp \in UploadResponses :
        /\ log' = [log EXCEPT ![i] =
                     [@ EXCEPT !.fetch = dresp,
                               !.uploads = @ + UploadCalls(dresp),
                               !.upload = IF dresp = "ok" THEN LogUpload(uresp) ELSE @]]
        /\ task_pc' = [task_pc EXCEPT ![i] = "done"]
        /\ EndTask(i, ProcessPaperResume(dresp, uresp))
    /\ UNCHANGED <<collection_key, download_pdfs, mapping_config, papers, item_key, map_vars,
                   main_vars>>

GatherFirstCompleted(pcs) == \E i \in DOMAIN pcs : pcs[i] = "done"

\* line 348: 'await asyncio.gather(*tasks)' resumes once every task handed to it is done
GatherComplete(pcs) == \A i \in DOMAIN pcs : pcs[i] = "done"

\* lines 348-351: gather has collected every task; the counters are returned
Return ==
    /\ run_pc = "gather"
    /\ GatherComplete(task_pc)
    /\ run_pc' = "returned"
    /\ result' = <<successful, failed>>
    /\ UNCHANGED <<collection_key, download_pdfs, mapping_config, papers, task_pc, item_key,
                   log, outcome, successful, failed, map_vars, main_vars>>

\* the table a collector's mapper is built with.  Line 45 passes ARXIV_TO_ZOTERO_MAPPING;
\* with the MetadataMapper of metadata_config.py its first rule already raises (the
\* transformer clean_latex_markup is not a method of the class), so no item is ever
\* created with it.  MetadataMapper takes any table, and the steps after the mapping are
\* reached with the table's rules that need no transformer, so a collector is run with
\* either.
CollectorConfigs ==
    {ARXIV_TO_ZOTERO_MAPPING,
     SelectSeq(ARXIV_TO_ZOTERO_MAPPING, LAMBDA rule : rule.target \in {"url", "archiveID"})}

MapIdle ==
    /\ map_pc = "idle"
    /\ map_config = <<>>
    /\ source_data = EmptyMap
    /\ map_result = MapReturned(EmptyMap)

RunIdle ==
    /\ collection_key = FALSE
    /\ download_pdfs = FALSE
    /\ mapping_config = <<>>
    /\ run_pc = "idle"
    /\ papers = <<>>
    /\ task_pc = <<>>
    /\ item_key = <<>>
    /\ log = <<>>
    /\ outcome = <<>>
    /\ successful = 0
    /\ failed = 0
    /\ result = NoResult

MainIdle ==
    /\ main_pc = "idle"
    /\ collector = FALSE
    /\ closed = 0
    /\ main_err = NoError
    /\ exit_code = NoExit

Init ==
    /\ MapIdle
    /\ MainIdle
    /\ collection_key \in BOOLEAN
    /\ download_pdfs \in BOOLEAN
    /\ mapping_config \in CollectorConfigs
    /\ run_pc = "search"
    /\ papers = <<>>
    /\ task_pc = <<>>
    /\ item_key = <<>>
    /\ log = <<>>
    /\ outcome = <<>>
    /\ successful = 0
    /\ failed = 0
    /\ result = NoResult

Next ==
    \/ Search
    \/ \E i \in Tasks : StartTask(i)
    \/ \E i \in Tasks : FinishDownload(i)
    \/ Return

Spec == Init /\ [][Next]_vars

(* --------------------------- a cancelled run --------------------------- *)

\* the tasks suspended in download_pdf
Suspended == {i \in Tasks : task_pc[i] = "downloading"}

\* The task that runs run_collection_async is cancelled while it waits in gather (line
\* 348).  gather cancels its children, and asyncio.CancelledError is thrown into every
\* suspended pipeline at its await (line 184).  Up to Python 3.7 CancelledError is a
\* subclass of Exception: line 273 catches it, the pipeline returns False, process_paper
\* counts a failure and gather completes.  From Python 3.8 on it derives from
\* BaseException: no 'except Exception' (lines 273, 343, 353) catches it, the children
\* end cancelled without touching a counter and the error leaves run_collection_async.
\* The sources name no Python version, so both are possible.
Cancel ==
    /\ run_pc = "gather"
    /\ Suspended # {}
    /\ \A i \in Tasks : task_pc[i] # "pending"
    /\ \E cancelled_is_exception \in BOOLEAN :
        /\ log' = [i \in Tasks |-> IF i \in Suspended
                                   THEN [log[i] EXCEPT !.fetch = "cancelled"] ELSE log[i]]
        /\ IF cancelled_is_exception
           THEN /\ task_pc' = [i \in Tasks |-> "done"]
                /\ outcome' = [i \in Tasks |-> IF i \in Suspended THEN "Failed"
                                               ELSE outcome[i]]
                /\ failed' = failed + Cardinality(Suspended)
                /\ UNCHANGED <<run_pc, result>>
           ELSE /\ task_pc' = [i \in Tasks |-> IF i \in Suspended THEN "cancelled"
                                               ELSE task_pc[i]]
                /\ run_pc' = "cancelled"
                /\ UNCHANGED <<outcome, failed, result>>
    /\ UNCHANGED <<collection_key, download_pdfs, mapping_config, papers, item_key,
                   successful, map_vars, main_vars>>

CancelNext == Next \/ Cancel

CancelSpec == Init /\ [][CancelNext]_vars

(* ------------------------------- main ---------------------------------- *)

\* what load_credentials does (main.py 116): it returns the credentials, or raises the
\* CredentialsError of line 150
CredentialsResponses == {"ok", "CredentialsError"}

\* main.py 160: 'return 0 if failed == 0 else 1'
ExitCode(failed_count) == IF failed_count = 0 THEN 0 ELSE 1

\* main.py 116
LoadCredentials ==
    /\ main_pc = "credentials"
    /\ \E answer \in CredentialsResponses :
        IF answer = "ok"
        THEN main_pc' = "construct" /\ UNCHANGED main_err
        ELSE main_pc' = "finally" /\ main_err' = [step |-> "credentials", exc |-> answer]
    /\ UNCHANGED <<collector, closed, exit_code, map_vars, run_vars>>

\* main.py 119-123: the collector is built from the credentials; a credentials dict
\* without one of the three keys raises KeyError before the constructor is called
Construct ==
    /\ main_pc = "construct"
    /\ \E complete \in BOOLEAN :
        IF complete
        THEN /\ collector' = TRUE
             /\ collection_key' \in BOOLEAN
             /\ mapping_config' \in CollectorConfigs
             /\ main_pc' = "params"
             /\ UNCHANGED main_err
        ELSE /\ main_err' = [step |-> "construct", exc |-> "KeyError"]
             /\ main_pc' = "finally"
             /\ UNCHANGED <<collector, collection_key, mapping_config>>
    /\ UNCHANGED <<closed, exit_code, map_vars, download_pdfs, run_pc, papers, task_pc,
                   item_key, log, outcome, successful, failed, result>>

\* main.py 126-146: the search parameters are read (load_yaml_config raises
\* ArgumentTypeError for a file it cannot load) and run_collection_async is called with
\* download_pdfs = not args.no_pdf
CallRun ==
    /\ main_pc = "params"
    /\ \E config_loads \in BOOLEAN :
        IF config_loads
        THEN /\ main_pc' = "run"
             /\ run_pc' = "search"
             /\ download_pdfs' \in BOOLEAN
             /\ UNCHANGED main_err
        ELSE /\ main_err' = [step |-> "params", exc |-> "ArgumentTypeError"]
             /\ main_pc' = "finally"
             /\ UNCHANGED <<run_pc, download_pdfs>>
    /\ UNCHANGED <<collector, closed, exit_code, map_vars, collection_key, mapping_config,
                   papers, task_pc, item_key, log, outcome, successful, failed, result>>

\* the run called at main.py 143 takes a step, or is cancelled
RunStep ==
    /\ main_pc = "run"
    /\ CancelNext

\* main.py 143: the await of run_collection_async ends, with the pair it returned or
\* with the CancelledError that left it
AwaitRun ==
    /\ main_pc = "run"
    /\ run_pc \in {"returned", "cancelled"}
    /\ main_err' = IF run_pc = "returned" THEN main_err
                   ELSE [step |-> "run", exc |-> "CancelledError"]
    /\ main_pc' = "finally"
    /\ UNCHANGED <<collector, closed, exit_code, map_vars, run_vars>>

\* main.py 150-160: the handlers of CredentialsError and Exception return 1, any other
\* exception goes on; the finally clause closes the collector if there is one; without
\* an exception line 160 returns the exit code
Finally ==
    /\ main_pc = "finally"
    /\ closed' = IF collector THEN closed + 1 ELSE closed
    /\ IF main_err = NoError
       THEN main_pc' = "returned" /\ exit_code' = ExitCode(result[2])
       ELSE IF CaughtByExcept(main_err.exc)
            THEN main_pc' = "returned" /\ exit_code' = 1
            ELSE main_pc' = "raised" /\ UNCHANGED exit_code
    /\ UNCHANGED <<collector, main_err, map_vars, run_vars>>

MainInit ==
    /\ MapIdle
    /\ RunIdle
    /\ main_pc = "credentials"
    /\ collector = FALSE
    /\ closed = 0
    /\ main_err = NoError
    /\ exit_code = NoExit

MainNext ==
    \/ LoadCredentials
    \/ Construct
    \/ CallRun
    \/ RunStep
    \/ AwaitRun
    \/ Finally

MainSpec == MainInit /\ [][MainNext]_vars

(* ------------------- the mapping engine on its own --------------------- *)

\* one call of map_metadata (lines 40-74)
MapMetadata ==
    /\ map_pc = "ready"
    /\ map_result' = map_metadata(map_config, source_data)
    /\ map_pc' = "done"
    /\ UNCHANGED <<map_config, source_data, run_vars, main_vars>>

MapInit ==
    /\ RunIdle
    /\ MainIdle
    /\ map_pc = "ready"
    /\ map_config \in MappingConfigs
    /\ source_data \in SourceRecords
    /\ map_result = MapReturned(EmptyMap)

MapNext == MapMetadata

MapSpec == MapInit /\ [][MapNext]_vars

(* ------------------------------ properties ----------------------------- *)

Done(i) == task_pc[i] = "done"

CountOf(what) == Cardinality({i \in Tasks : outcome[i] = what})

\* the upload's answer holds an accepted-new or an accepted-unchanged entry
AcceptedEntries(u) == u.kind = "dict" /\ (u.success > 0 \/ u.unchanged > 0)
\* the upload's answer holds a rejected entry
RejectedEntries(u) == u.kind = "dict" /\ u.failure > 0

\* C1: the pair run_collection_async returns sums to the number of records, for the
\* empty list too; at every moment each finished record has incremented exactly one
\* counter exactly once and no increment is lost.
C1_TallyCountsEveryRecord ==
    /\ run_pc = "returned" => result[1] + result[2] = Len(papers)
    /\ run_pc = "returned" /\ papers = <<>> => result = <<0, 0>>
    /\ run_pc \in {"gather", "returned"} =>
          /\ successful = CountOf("Success")
          /\ failed = CountOf("Failed")
          /\ \A i \in Tasks : Done(i) <=> outcome[i] # "none"

C1_Witness ==
    /\ run_pc = "returned"
    /\ Len(papers) >= 2
    /\ result[1] >= 1
    /\ result[2] >= 1

PlainRule(rule, src) ==
    \/ rule.has_default
    \/ /\ rule.kind = "key"
       /\ rule.key \in DOMAIN src =>
             \/ rule.transformer = NoTransformer
             \/ ~ApplyTransformer(rule.transformer, src[rule.key]).raised

\* the rule resolves to a present source value or to a default value
Resolves(rule, src) ==
    \/ rule.kind = "key" /\ rule.key \in DOMAIN src
    \/ rule.has_default

RulesOf(config) == {config[k] : k \in 1..Len(config)}

\* C4: when every required rule is satisfiable, map_metadata does not fail and returns
\* exactly the target fields whose rule resolved to a present source value or to a
\* default value.
C4_MapEmitsExactlyResolvedFields ==
    (/\ map_pc = "done"
     /\ \A rule \in RulesOf(map_config) : PlainRule(rule, source_data)
     /\ \A rule \in RulesOf(map_config) : rule.required => Resolves(rule, source_data))
        => /\ ~map_result.raised
           /\ DOMAIN map_result.mapped =
                 {rule.target : rule \in {x \in RulesOf(map_config) : Resolves(x, source_data)}}

\* the required rules of the table whose source key the record lacks
MissingRequired(config, src) ==
    {k \in 1..Len(config) :
        config[k].required /\ config[k].kind = "key" /\ config[k].key \notin DOMAIN src}

FirstMissingRequired(config, src) ==
    CHOOSE k \in MissingRequired(config, src) : \A j \in MissingRequired(config, src) : k <= j

\* C5: for a record that lacks a key of a required rule, map_metadata raises and returns
\* no partial mapping; it raises at that rule (the ValueError of line 58) when the rules
\* before it went through.
C5_MissingRequiredRaisesNoPartial ==
    (map_pc = "done" /\ MissingRequired(map_config, source_data) # {})
        => /\ map_result.raised
           /\ map_result.mapped = EmptyMap
           /\ LET k == FirstMissingRequired(map_config, source_data)
              IN ~map_metadata(SubSeq(map_config, 1, k - 1), source_data).raised
                    => map_result.exc = "ValueError"

C5_Witness ==
    /\ map_pc = "done"
    /\ MissingRequired(map_config, source_data) # {}
    /\ LET k == FirstMissingRequired(map_config, source_data)
           before == map_metadata(SubSeq(map_config, 1, k - 1), source_data)
       IN /\ k > 1
          /\ ~before.raised
          /\ DOMAIN before.mapped # {}
    /\ map_result.raised
    /\ map_result.exc = "ValueError"

C7_UploadAttemptsBounded ==
    \A m \in 1..MaxAttemptsBound : \A i \in Tasks :
        /\ log[i].uploads <= m
        /\ (log[i].uploads = m /\ ~AcceptedEntries(log[i].upload))
              => Done(i) /\ outcome[i] = "Failed"

C7_Witness ==
    \E i \in Tasks :
        /\ log[i].uploads = 1
        /\ log[i].upload.kind = "raise"
        /\ Done(i)
        /\ outcome[i] = "Failed"

\* C8: the answer to the upload decides the record: a success with an accepted-new or an
\* accepted-unchanged entry; a failure with rejected entries and none accepted; a failure
\* when it is missing, empty, or holds neither; an unknown answer is never a success.
C8_UploadAnswerDecidesOutcome ==
    \A i \in Tasks :
        (Done(i) /\ log[i].uploads >= 1) =>
            LET u == log[i].upload
            IN /\ AcceptedEntries(u) => outcome[i] = "Success"
               /\ (RejectedEntries(u) /\ ~AcceptedEntries(u)) => outcome[i] = "Failed"
               /\ (~RejectedEntries(u) /\ ~AcceptedEntries(u)) => outcome[i] = "Failed"

C8_Witness ==
    \E i, j \in Tasks :
        /\ Done(i) /\ Done(j)
        /\ log[i].upload = [kind |-> "dict", success |-> 0, unchanged |-> 0, failure |-> 0]
        /\ outcome[i] = "Failed"
        /\ log[j].upload = [kind |-> "dict", success |-> 0, unchanged |-> 1, failure |-> 1]
        /\ outcome[j] = "Success"

\* the outcome the answers to record i's own calls lead to
OwnOutcome(i) ==
    IF /\ log[i].map = "ok"
       /\ log[i].create = "ok"
       /\ collection_key => log[i].add = "true"
       /\ download_pdfs
       /\ log[i].fetch = "ok"
       /\ AcceptedEntries(log[i].upload)
    THEN "Success" ELSE "Failed"

\* C9: a record's outcome is the one the answers to its own calls lead to, whatever
\* happened to the other records, and the run does not end while a record is unfinished:
\* a failing create-item step of one record changes no other record's outcome.
C9_FaultIsolation ==
    \A j \in Tasks :
        /\ Done(j) => outcome[j] = OwnOutcome(j)
        /\ run_pc \in {"returned", "raised"} => Done(j)

C9_Witness ==
    \E f, j \in Tasks :
        /\ f < j
        /\ log[f].create = "raise"
        /\ outcome[f] = "Failed"
        /\ outcome[j] = "Success"
        /\ run_pc = "returned"

\* a step of record i raised (the last case is the UnboundLocalError of line 189)
RaisedInPipeline(i) ==
    \/ log[i].map = "raise"
    \/ log[i].create \in {"raise", "no_key"}
    \/ log[i].add = "raise"
    \/ log[i].fetch = "raise"
    \/ log[i].upload.kind = "raise"
    \/ ~download_pdfs /\ log[i].create = "ok" /\ (collection_key => log[i].add = "true")

\* C10: an error raised at any step of a record's pipeline becomes one counted failure of
\* that record; run_collection_async never fails, and N records that all fail give (0, N).
C10_ErrorsBecomeCountedFailures ==
    /\ run_pc # "raised"
    /\ \A i \in Tasks : (Done(i) /\ RaisedInPipeline(i)) => outcome[i] = "Failed"
    /\ run_pc \in {"gather", "returned"} => failed = CountOf("Failed")
    /\ (run_pc = "returned" /\ \A i \in Tasks : outcome[i] = "Failed")
          => result = <<0, Len(papers)>>

C10_Witness ==
    /\ run_pc = "returned"
    /\ result = <<0, Len(papers)>>
    /\ \E i, j \in Tasks :
        /\ log[i].create = "raise"
        /\ log[j].fetch = "raise"

\* C11: run_collection_async returns its tally only after every pipeline it launched has
\* reached a terminal outcome: at the return no task is pending or suspended, every
\* record is counted as success or failure, and the pair returned is the counters' value.
C11_ReturnsAfterEveryTask ==
    run_pc = "returned" =>
        /\ \A i \in Tasks : /\ Done(i)
                            /\ outcome[i] \in {"Success", "Failed"}
                            /\ log[i].fetch # "pending"
        /\ result = <<successful, failed>>

C11_Witness ==
    /\ run_pc = "returned"
    /\ Len(papers) >= 2
    /\ \E i, j \in Tasks : i < j /\ log[i].fetch = "ok" /\ log[j].fetch = "none"

\* the pipelines that have been started and have not reached a terminal outcome
InFlight == Cardinality({i \in Tasks : task_pc[i] = "downloading"})

IsNormalizedDate(text) ==
    /\ Len(text) = 10
    /\ text[5] = "-" /\ text[8] = "-"
    /\ \A k \in {1, 2, 3, 4, 6, 7, 9, 10} : \E n \in 0..9 : text[k] = DigitChar(n)

\* C13: the date transformer renders a date-like input as YYYY-MM-DD and is idempotent:
\* a mapping through the 'date' rule of a record whose 'published' value is a datetime
\* gives its YYYY-MM-DD text, and of a record whose 'published' value is already such a
\* text (as the search step leaves it) gives that same text, without failing.
C13_DateNormalizedAndIdempotent ==
    (/\ map_pc = "done"
     /\ Len(map_config) = 1
     /\ map_config[1].transformer = "transform_date"
     /\ map_config[1].key \in DOMAIN source_data
     /\ \/ source_data[map_config[1].key].t = "datetime"
        \/ /\ source_data[map_config[1].key].t = "str"
           /\ IsNormalizedDate(source_data[map_config[1].key].s))
    => /\ ~map_result.raised
       /\ map_config[1].target \in DOMAIN map_result.mapped
       /\ map_result.mapped[map_config[1].target] =
            IF source_data[map_config[1].key].t = "datetime"
            THEN StrV(Strftime(source_data[map_config[1].key].d))
            ELSE source_data[map_config[1].key]

\* the rule's source field is absent (source_field is None, or an optional rule's key is
\* missing from the record) and a default value is configured
DefaultApplies(rule, src) ==
    /\ rule.has_default
    /\ ~HasSourceField(rule, src)
    /\ rule.kind = "none" \/ ~rule.required

\* C14: a rule whose source field is absent and that has a default value configured
\* makes map_metadata emit its target with that value whenever the mapping returns, and
\* a table of that one rule always returns: the rule never makes the mapping fail.
C14_DefaultValueEmitted ==
    map_pc = "done" =>
        \A k \in 1..Len(map_config) :
            DefaultApplies(map_config[k], source_data) =>
                /\ ~map_result.raised =>
                      /\ map_config[k].target \in DOMAIN map_result.mapped
                      /\ map_result.mapped[map_config[k].target] = map_config[k].default_value
                /\ Len(map_config) = 1 => ~map_result.raised

\* record i was in flight when the run was cancelled
CancelledInFlight(i) == log[i].fetch = "cancelled"

C16_StepsStrictlySequential ==
    \A i \in Tasks :
        /\ task_pc[i] = "pending" => log[i] = NoLog
        /\ log[i].create # "-" => log[i].map = "ok"
        /\ log[i].add # "-" => log[i].create = "ok" /\ collection_key
        /\ log[i].fetch # "-" =>
              /\ log[i].create = "ok"
              /\ IF collection_key THEN log[i].add = "true" ELSE log[i].add = "-"
        /\ log[i].uploads > 0 => log[i].fetch = "ok"
        /\ log[i].fetch = "pending" <=> task_pc[i] = "downloading"
        /\ log[i].fetch = "pending" => log[i].uploads = 0 /\ log[i].upload = NoUpload

C16_Witness ==
    \E i \in Tasks :
        /\ Done(i)
        /\ log[i].map = "ok" /\ log[i].create = "ok" /\ log[i].add = "true"
        /\ log[i].fetch = "ok" /\ log[i].uploads = 1
        /\ outcome[i] = "Success"

\* no call after the item's creation was made for record i
NoLaterCall(i) ==
    /\ log[i].add = "-"
    /\ log[i].fetch = "-"
    /\ log[i].uploads = 0
    /\ log[i].upload = NoUpload

\* C17: a record whose mapping fails is counted as failed and does not proceed: no
\* create-item, add-to-collection, fetch or upload call is made for it, and it gets no
\* item key.
C17_MappingFailureStops ==
    /\ \A i \in Tasks :
          log[i].map = "raise" =>
              /\ Done(i)
              /\ outcome[i] = "Failed"
              /\ log[i].create = "-"
              /\ item_key[i] = NoKey
              /\ NoLaterCall(i)
    /\ run_pc \in {"gather", "returned"} =>
          failed >= Cardinality({i \in Tasks : log[i].map = "raise"})

C17_Witness ==
    /\ run_pc = "returned"
    /\ \E i \in Tasks : log[i].map = "raise" /\ outcome[i] = "Failed" /\ log[i].create = "-"
    /\ result[2] >= 1

\* C18: a create-item call that raises, answers without 'successful' entries or answers
\* with a successful entry that has no key makes the record a counted failure with no
\* add-to-collection, fetch or upload call; a record has an item key, and later calls,
\* only after a well-formed successful answer.
C18_CreateFailureStops ==
    \A i \in Tasks :
        /\ log[i].create \in {"raise", "unsuccessful", "no_key"} =>
              /\ Done(i)
              /\ outcome[i] = "Failed"
              /\ item_key[i] = NoKey
              /\ NoLaterCall(i)
        /\ item_key[i] # NoKey => log[i].create = "ok" /\ item_key[i] = i
        /\ ~NoLaterCall(i) => item_key[i] # NoKey

C18_Witness ==
    /\ run_pc = "returned"
    /\ \E i, j \in Tasks :
        /\ log[i].create = "no_key" /\ outcome[i] = "Failed"
        /\ log[j].create = "unsuccessful" /\ outcome[j] = "Failed"
    /\ result = <<0, Len(papers)>>

\* C19: when the download of a record's PDF fails (download_pdf gives no file, or
\* raises) after its item was created, the record is counted as failed, no upload is
\* attempted for it, and the item stays: the record keeps the key of the created item.
C19_FetchFailureAfterCreate ==
    \A i \in Tasks :
        log[i].fetch \in {"none", "raise"} =>
            /\ Done(i)
            /\ outcome[i] = "Failed"
            /\ log[i].uploads = 0
            /\ log[i].upload = NoUpload
            /\ log[i].create = "ok"
            /\ item_key[i] = i

C19_Witness ==
    /\ run_pc = "returned"
    /\ \E i, j \in Tasks :
        /\ log[i].fetch = "none" /\ outcome[i] = "Failed" /\ item_key[i] = i
        /\ log[j].fetch = "raise" /\ outcome[j] = "Failed" /\ item_key[j] = j
    /\ result = <<0, Len(papers)>>

\* record i carries no artifact URL
NoArtifactUrl(i) == papers[i].pdf_url.t = "none"

SatisfiesRequired(rule, src) == rule.required => HasSourceField(rule, src)

\* C21: every record the search step prepares satisfies every required rule of
\* ARXIV_TO_ZOTERO_MAPPING, so mapping it with that table returns a mapping, not an error.
C21_SearchRecordsMapWithArxivTable ==
    (/\ map_pc = "done"
     /\ map_config = ARXIV_TO_ZOTERO_MAPPING
     /\ source_data \in PreparedPapers)
    => /\ \A k \in 1..Len(map_config) : SatisfiesRequired(map_config[k], source_data)
       /\ ~map_result.raised

\* the by-name lookup of the rule's transformer (getattr, line 65) finds no method
DispatchFails(rule) ==
    rule.transformer # NoTransformer /\ rule.transformer \notin MapperMethods

\* C22: every transformer name a rule of ARXIV_TO_ZOTERO_MAPPING refers to is a method
\* of MetadataMapper: mapping a record through one rule of the table whose source value
\* is present never fails in the lookup of the transformer; when it raises, the
\* transformer found has raised.
C22_TransformerNamesResolve ==
    (/\ map_pc = "done"
     /\ Len(map_config) = 1
     /\ HasSourceField(map_config[1], source_data))
    => /\ ~DispatchFails(map_config[1])
       /\ map_result.raised =>
             ApplyTransformer(map_config[1].transformer,
                              source_data[map_config[1].key]).raised

\* C23: a record is counted in the success counter only if its item was created, it was
\* added to the collection when one is configured and, when downloads are requested, the
\* upload's answer held an accepted entry; none of the steps run for it has failed; and
\* the success counter counts exactly the records with that outcome.
C23_SuccessOnlyAfterAllSteps ==
    /\ \A i \in Tasks :
          outcome[i] = "Success" =>
              /\ Done(i)
              /\ log[i].map = "ok"
              /\ log[i].create = "ok" /\ item_key[i] # NoKey
              /\ collection_key => log[i].add = "true"
              /\ log[i].add \in {"-", "true"}
              /\ download_pdfs =>
                    /\ log[i].fetch = "ok"
                    /\ log[i].uploads >= 1
                    /\ AcceptedEntries(log[i].upload)
              /\ log[i].fetch \in {"-", "ok"}
              /\ ~RaisedInPipeline(i)
    /\ run_pc \in {"gather", "returned"} => successful = CountOf("Success")
    /\ run_pc = "returned" => result[1] = CountOf("Success")

C23_Witness ==
    /\ run_pc = "returned"
    /\ collection_key /\ download_pdfs
    /\ result = <<1, Len(papers) - 1>>
    /\ \E i, j \in Tasks :
        /\ outcome[i] = "Success" /\ log[i].add = "true" /\ AcceptedEntries(log[i].upload)
        /\ outcome[j] = "Failed" /\ log[j].add = "false"

\* main has ended: it returned an exit code, or an exception left it
MainEnded == main_pc \in {"returned", "raised"}

\* what main does whenever no exception leaves the run: it returns 0 exactly when the
\* run returned with no failed record, 1 when a record failed or an earlier step raised,
\* and it has closed the collector once if it built one
MainReturnsExitCode ==
    /\ ~MainEnded => exit_code = NoExit /\ closed = 0
    /\ MainEnded =>
          /\ closed = IF collector THEN 1 ELSE 0
          /\ main_pc = "raised" <=> main_err.step = "run"
          /\ exit_code = 0 <=> (/\ main_pc = "returned"
                                /\ main_err = NoError
                                /\ run_pc = "returned"
                                /\ result[2] = 0)
          /\ main_pc = "returned" /\ main_err = NoError /\ result[2] > 0 => exit_code = 1
          /\ main_err.step \in {"credentials", "construct", "params"} => exit_code = 1

====
